---- MODULE Spec2Model ----
(***************************************************************************)
(* SonicSlicer: the AudioProcessor operations (split_by_time,              *)
(* split_by_size, trim) of sonicslicer/slicer.py, the argument validators  *)
(* of sonicslicer/validators.py, the dispatch of sonicslicer/main.py and   *)
(* the thread-pool wrapper of sonicslicer/decorators.py.                   *)
(*                                                                         *)
(* Audio is modelled at frame granularity, as pydub slices it: a decoded   *)
(* file of len ms holds frame_count(ms=len) frames, and a segment cut from *)
(* it is the interval [start, end) of the file's frames that it holds plus *)
(* the silent frames appended to it.  Millisecond quantities are rationals *)
(* <<numerator, denominator>>.  Second-valued arguments are rationals with *)
(* denominator SecDenom, held as their numerator ("ticks"), so that        *)
(* int(x * 1000) truncates as it does in the code.  Where the code works   *)
(* in binary floating point and the result can differ from the exact one   *)
(* (int((n / 1000) * 1000), round(1000 * (frames / frame_rate))), the      *)
(* rounding of the two operations is computed.                             *)
(***************************************************************************)
EXTENDS Integers, Sequences, FiniteSets, TLC

VARIABLES
    processor,  \* the AudioProcessor: output_format and bitrate
    call,       \* the operation called on it, with its arguments
    result,     \* what the call raised or returned, wrote and read
    cli,        \* a run of main(): arguments, output, exit status
    pool        \* a run of a threaded_for_loop wrapper

vars == <<processor, call, result, cli, pool>>

-----------------------------------------------------------------------------
(* Bounds of the model *)

MaxTotalMs == 9
MaxChunkMs == 5
MaxCount == 3
MaxSecTicks == 3
SecDenom == 256
MaxSizeSteps == 4
SizeStep == 63
MaxItems == 2
MaxWorkers == 2
MaxRoom == 1
MaxCpus == 2

-----------------------------------------------------------------------------
(* Values *)

Min(a, b) == IF a < b THEN a ELSE b
Max(a, b) == IF a > b THEN a ELSE b

\* Python's int(num / den): truncation toward zero
IntOf(num, den) == IF num >= 0 THEN num \div den ELSE -((-num) \div den)

\* int(x * 1000) for x = ticks / SecDenom seconds
ToMs(ticks) == IntOf(ticks * 1000, SecDenom)

\* A Python argument that is None, a number (seconds, in ticks) or a string
\* "<number><suffix>"
None == [t |-> "none", v |-> 0, u |-> ""]
Num(n) == [t |-> "num", v |-> n, u |-> ""]
Str(n, u) == [t |-> "str", v |-> n, u |-> u]

\* the number ms / 1000 (len(audio) / 1000 seconds), held in milliseconds
Seconds(ms) == [t |-> "num", v |-> ms, u |-> "ms"]

\* a number of milliseconds: the rational n / d, d > 0
Ms(n) == <<n, 1>>
RatLess(a, b) == a[1] * b[2] < b[1] * a[2]
RatMin(a, b) == IF RatLess(a, b) THEN a ELSE b
RatAdd(a, b) == <<a[1] * b[2] + b[1] * a[2], a[2] * b[2]>>
RatTimes(k, a) == <<k * a[1], a[2]>>

RECURSIVE GCD(_, _)
GCD(a, b) == IF b = 0 THEN a ELSE GCD(b, a % b)

\* sections: the string "max" or an integer
SecMax == [t |-> "max", n |-> 0]
SecInt(k) == [t |-> "int", n |-> k]

SUPPORTED_AUDIO_FORMATS == {"wav", "mp3", "ogg", "flac", "aiff"}

\* bitrate strings "<kbps>k", held as <<kbps, "k">>
Bitrates == {<<64, "k">>, <<192, "k">>}

\* The audio a file decodes to: len(audio) in ms and the attributes read
AudioAttrs == [sample_width : {2}, channels : {1, 2}, frame_rate : {8000, 44100}]

Audio(len, a) ==
    [len |-> len, sample_width |-> a.sample_width, channels |-> a.channels,
     frame_rate |-> a.frame_rate]

NoAudio == [len |-> 0, sample_width |-> 0, channels |-> 0, frame_rate |-> 0]

\* file_path: its parent directory, its stem and the whole path
InputPath == [dir |-> "in", stem |-> "song", name |-> "in/song.src"]

\* What file_path names on disk: a decodable audio file, nothing, a
\* directory, or a file the decoder rejects
Files ==
    {[path |-> InputPath, state |-> "ok", audio |-> Audio(l, a)] :
        l \in 0..MaxTotalMs, a \in AudioAttrs}
    \cup {[path |-> InputPath, state |-> s, audio |-> NoAudio] :
            s \in {"missing", "dir", "corrupt"}}

\* output_dir: none, a directory that exists or can be made, or the path of
\* the input file itself, under which no directory can be made
OutputDirs == {"", "out", InputPath.name}

\* The rest of the file system: whether exports are limited, and if so how
\* many more files it takes before an export fails
NoLimit == [limited |-> FALSE, room |-> 0]
Room(k) == [limited |-> TRUE, room |-> k]

Disks == {NoLimit} \cup {Room(k) : k \in 0..MaxRoom}

-----------------------------------------------------------------------------
(* Outcomes of an operation *)

\* status: "ok" or "error"; error: the exception raised; outputs: the files
\* written, in order; io: the file checks and decodes done, in order; value:
\* what a pure function returned
Raise(e, io) ==
    [status |-> "error", error |-> e, outputs |-> <<>>, io |-> io, value |-> <<>>]

\* an exception raised after the files outs were written
RaiseAfter(e, outs, io) ==
    [status |-> "error", error |-> e, outputs |-> outs, io |-> io, value |-> <<>>]

Returned(outs, io) ==
    [status |-> "ok", error |-> "", outputs |-> outs, io |-> io, value |-> <<>>]

Value(v) ==
    [status |-> "ok", error |-> "", outputs |-> <<>>, io |-> <<>>, value |-> v]

NoResult ==
    [status |-> "none", error |-> "", outputs |-> <<>>, io |-> <<>>, value |-> <<>>]

NoCall == [op |-> "none"]

-----------------------------------------------------------------------------
(* Binary floating point: where fl(fl(n / d) * m) falls *)

\* the largest e with 2^e <= n / d, for n > 0 and d > 0
RECURSIVE ExpUp(_, _, _)
ExpUp(n, d, e) == IF d * 2 <= n THEN ExpUp(n, d * 2, e + 1) ELSE e

RECURSIVE ExpDown(_, _, _)
ExpDown(n, d, j) == IF n < d THEN ExpDown(n * 2, d, j + 1) ELSE -j

FloorLog2(n, d) == IF n >= d THEN ExpUp(n, d, 0) ELSE ExpDown(n, d, 0)

RECURSIVE Pow2(_)
Pow2(k) == IF k <= 0 THEN 1 ELSE 2 * Pow2(k - 1)

\* (r * 2^k) mod d, ten doublings at a time (d < 2^21)
RECURSIVE MulPowMod(_, _, _)
MulPowMod(r, k, d) ==
    IF k = 0 THEN r % d
    ELSE IF k >= 10 THEN MulPowMod((1024 * (r % d)) % d, k - 10, d)
    ELSE MulPowMod((2 * (r % d)) % d, k - 1, d)

\* n / d is a power of two
IsPow2At(n, d, e) == IF e >= 0 THEN n = d * Pow2(e) ELSE n * Pow2(-e) = d

IsPow2(n, d) == IsPow2At(n, d, FloorLog2(n, d))

\* the rounding error of the division, fl(n / d) - n / d, in units of
\* ulp / d: the 53-bit quotient is rounded to nearest, ties to even
NearestError(r, d, odd) ==
    IF 2 * r < d THEN -r
    ELSE IF 2 * r > d THEN d - r
    ELSE IF odd THEN d - r ELSE -r

ScaledError(n, d, k) ==
    NearestError(MulPowMod(n, k, d), d, MulPowMod(n, k, 2 * d) >= d)

DivError(n, d) == ScaledError(n, d, 52 - FloorLog2(n, d))

\* For n * m / d a binary float (n >= 0; d, m > 0): -1, 0 or 1 as
\* fl(fl(n / d) * m) is the float below it, the value itself, or the float
\* above it.  The product is off by DivError * m and is rounded to nearest
\* on a grid whose step below a power of two is half the step above.
ProductDir(rp, m, up, halved) ==
    IF rp > 0 /\ 2 * rp * m > up THEN 1
    ELSE IF rp < 0 /\ 2 * (-rp) * m > (IF halved THEN up \div 2 ELSE up) THEN -1
    ELSE 0

FloatDir(n, d, m) ==
    IF n = 0 THEN 0
    ELSE ProductDir(DivError(n, d), m,
                    d * Pow2(FloorLog2(n * m, d) - FloorLog2(n, d)),
                    IsPow2(n * m, d))

\* round(num / den) with ties to even (den > 0, num >= 0)
RoundHalfEven(num, den) ==
    IF 2 * (num % den) < den THEN num \div den
    ELSE IF 2 * (num % den) > den THEN num \div den + 1
    ELSE IF (num \div den) % 2 = 0 THEN num \div den ELSE num \div den + 1

-----------------------------------------------------------------------------
(* pydub: AudioSegment slicing and make_chunks *)

\* AudioSegment.frame_count(ms), truncated as int() does: ms * (frame_rate /
\* 1000.0), ms = <<n, d>>; the quotient is taken by parts
\* a * f / D truncated, a >= 0
Quotient(a, f, D) == (a \div D) * f + ((a % D) * f) \div D

\* n * (frame_rate / 1000) / d truncated toward zero, g the common divisor of
\* frame_rate and 1000
FrameCountBy(n, d, frame_rate, g) ==
    IF n < 0 THEN -Quotient(-n, frame_rate \div g, d * (1000 \div g))
    ELSE Quotient(n, frame_rate \div g, d * (1000 \div g))

FrameCount(ms, frame_rate) ==
    FrameCountBy(ms[1], ms[2], frame_rate, GCD(frame_rate, 1000))

\* the frames of a decoded file
Frames(audio) == FrameCount(Ms(audio.len), audio.frame_rate)

\* AudioSegment._parse_position: a negative position counts from the end;
\* the position in frames
ParsePosition(audio, val) ==
    FrameCount(IF val[1] < 0 THEN RatAdd(Ms(audio.len), val) ELSE val,
               audio.frame_rate)

\* bytes slicing data[s:e]: Python's index normalisation
PyIndex(len, i) == IF i < 0 THEN Max(len + i, 0) ELSE Min(i, len)

\* an AudioSegment cut from the file: the frames [start, end) of the file and
\* the silent frames appended; error: the exception raised instead
Segment(s, e, silence) == [error |-> "", start |-> s, end |-> e, silence |-> silence]

NoSegment(e) == [error |-> e, start |-> 0, end |-> 0, silence |-> 0]

\* audio[start:stop] with both bounds given, in ms: the data sliced, then
\* "ensure the output is as long as the requester is expecting"
\* the data[ds:de] sliced, missing_frames short of what was asked for: more
\* than frame_count(ms=2) missing raises, else the data is padded with
\* copies of its first frame silenced
Padded(audio, ds, de, missing_frames) ==
    IF missing_frames > 0 /\ missing_frames * 1000 > 2 * audio.frame_rate
    THEN NoSegment("TooManyMissingFrames")
    ELSE Segment(ds, de, IF missing_frames > 0 /\ de > ds THEN missing_frames ELSE 0)

\* self._data[s:e] for the frame positions s and e
SlicedData(audio, s, e, ds, de) == Padded(audio, ds, Max(ds, de), (e - s) - (Max(ds, de) - ds))

SlicedFrames(audio, s, e) ==
    SlicedData(audio, s, e, PyIndex(Frames(audio), s), PyIndex(Frames(audio), e))

GetItem(audio, start, stop) ==
    SlicedFrames(audio, ParsePosition(audio, RatMin(start, Ms(audio.len))),
                 ParsePosition(audio, RatMin(stop, Ms(audio.len))))

\* audio[start:]
SliceFrom(audio, start) == GetItem(audio, start, Ms(audio.len))

\* audio[:stop]
SliceTo(audio, stop) == GetItem(audio, Ms(0), stop)

\* len(segment): round(1000 * (frame_count / frame_rate))
\* round(x) for x the float 1000 * (n / frame_rate): where the exact value
\* is halfway between two integers the float decides, dir telling on which
\* side of it the float fell
RoundedMs(n, frame_rate, dir) ==
    IF (2 * 1000 * n) % frame_rate = 0 /\ (1000 * n) % frame_rate # 0 /\ dir # 0
    THEN (1000 * n) \div frame_rate + (IF dir > 0 THEN 1 ELSE 0)
    ELSE RoundHalfEven(1000 * n, frame_rate)

SegLen(seg, audio) ==
    RoundedMs((seg.end - seg.start) + seg.silence, audio.frame_rate,
              FloatDir((seg.end - seg.start) + seg.silence, audio.frame_rate, 1000))

\* the chunk count rounded down: a trailing partial chunk is lost
NumberOfChunks_Floor(len, chunk_length) ==
    (len * chunk_length[2]) \div chunk_length[1]

\* ceil(len / float(chunk_length)), chunk_length > 0
NumberOfChunks(len, chunk_length) ==
    (len * chunk_length[2] + chunk_length[1] - 1) \div chunk_length[1]

\* pydub.utils.make_chunks(audio, chunk_length)
make_chunks(audio, chunk_length) ==
    [i \in 1..NumberOfChunks(audio.len, chunk_length) |->
        GetItem(audio, RatTimes(i - 1, chunk_length), RatTimes(i, chunk_length))]

\* the prefix one element short
ListPrefix_OneShort(lst, k) ==
    IF k >= 0 THEN SubSeq(lst, 1, Min(k - 1, Len(lst)))
    ELSE SubSeq(lst, 1, Max(Len(lst) + k, 0))

\* Python list slicing lst[:k]
ListPrefix(lst, k) ==
    IF k >= 0 THEN SubSeq(lst, 1, Min(k, Len(lst)))
    ELSE SubSeq(lst, 1, Max(Len(lst) + k, 0))

-----------------------------------------------------------------------------
(* AudioProcessor helpers *)

validate_file(file) ==
    IF file.state = "missing" THEN [error |-> "FileNotFound", io |-> <<"exists">>]
    ELSE IF file.state = "dir" THEN [error |-> "NotAFile", io |-> <<"exists", "is_file">>]
    ELSE [error |-> "", io |-> <<"exists", "is_file">>]

load_audio(file) ==
    IF file.state = "corrupt" THEN [error |-> "LoadFailed", io |-> <<"decode">>]
    ELSE [error |-> "", io |-> <<"decode">>]

\* <stem>-part-<index:03d>.<ext> when an index is given, else <stem><suffix>.<ext>
get_output_path(self, input_path, suffix, index) ==
    IF index # 0
    THEN [dir |-> input_path.dir, stem |-> input_path.stem, suffix |-> "-part-",
          index |-> index, ext |-> self.output_format]
    ELSE [dir |-> input_path.dir, stem |-> input_path.stem, suffix |-> suffix,
          index |-> 0, ext |-> self.output_format]

\* Path(output_dir) / path.name when output_dir is truthy
InDir(output_dir, path) ==
    IF output_dir # "" THEN [path EXCEPT !.dir = output_dir] ELSE path

\* output_path.absolute().parent.mkdir(parents=True, exist_ok=True) raises:
\* the parent is the input file, which is no directory
MkdirFails(file, output_path) ==
    output_path.dir = file.path.name /\ file.state \in {"ok", "corrupt"}

\* the file audio.export writes, holding the segment seg of the source
Exported(seg, output_path) ==
    [path |-> output_path, start |-> seg.start, end |-> seg.end,
     silence |-> seg.silence]

\* _save_audio(segs[i], paths[i]) for i = 1, 2, ... in order, after the files
\* written so far: a save fails when the directory cannot be made or the disk
\* takes no more files, and nothing after it is saved.  error is "" or the
\* exception of the failing save; written the files that were saved.
SavedFirst(fits, segs, paths) ==
    [error |-> IF fits < Len(segs) THEN "SaveFailed" ELSE "",
     written |-> [i \in 1..fits |-> Exported(segs[i], paths[i])]]

save_audio(disk, file, segs, paths) ==
    SavedFirst(IF Len(segs) > 0 /\ MkdirFails(file, paths[1]) THEN 0
               ELSE IF disk.limited THEN Min(Len(segs), disk.room)
               ELSE Len(segs),
               segs, paths)

\* the first slicing error among segs, or ""
RECURSIVE SliceError(_)
SliceError(segs) ==
    IF segs = <<>> THEN ""
    ELSE IF Head(segs).error # "" THEN Head(segs).error
    ELSE SliceError(Tail(segs))

-----------------------------------------------------------------------------
(* AudioProcessor.split_by_time *)

\* strict comparing with <= : a full final chunk is dropped too
StrictDrop_Inclusive(audio, chunks, chunk_duration_ms, strict) ==
    IF strict /\ Len(chunks) > 0
          /\ ~RatLess(chunk_duration_ms, Ms(SegLen(chunks[Len(chunks)], audio)))
    THEN SubSeq(chunks, 1, Len(chunks) - 1)
    ELSE chunks

\* if strict and chunks and len(chunks[-1]) < chunk_duration_ms
StrictDrop(audio, chunks, chunk_duration_ms, strict) ==
    IF strict /\ Len(chunks) > 0
          /\ RatLess(Ms(SegLen(chunks[Len(chunks)], audio)), chunk_duration_ms)
    THEN SubSeq(chunks, 1, Len(chunks) - 1)
    ELSE chunks

\* chunks[:_sections] if _sections != 0 else chunks
CountLimit(chunks, sections) ==
    IF sections.t = "max" \/ sections.n = 0 THEN chunks
    ELSE ListPrefix(chunks, sections.n)

\* the split point compared with > : a split at the very end is let through
ExceedsDuration_Strict(chunk_duration_ms, total_duration) ==
    RatLess(Ms(total_duration), chunk_duration_ms)

\* chunk_duration_ms >= total_duration
ExceedsDuration(chunk_duration_ms, total_duration) ==
    ~RatLess(chunk_duration_ms, Ms(total_duration))

\* what an operation returns or raises after slicing segs and saving them to
\* paths
AfterSave(slice_error, saved, io) ==
    IF slice_error # "" THEN Raise(slice_error, io)
    ELSE IF saved.error # "" THEN RaiseAfter(saved.error, saved.written, io)
    ELSE Returned(saved.written, io)

SaveAll(disk, file, segs, paths, io) ==
    AfterSave(SliceError(segs), save_audio(disk, file, segs, paths), io)

SingleSplit(self, disk, file, chunk_duration_ms, output_dir, io) ==
    IF ExceedsDuration(chunk_duration_ms, file.audio.len) THEN Raise("ExceedsDuration", io)
    ELSE SaveAll(disk, file,
                 <<SliceTo(file.audio, chunk_duration_ms),
                   SliceFrom(file.audio, chunk_duration_ms)>>,
                 <<InDir(output_dir, get_output_path(self, file.path, "-part-1", 1)),
                   InDir(output_dir, get_output_path(self, file.path, "-part-2", 2))>>,
                 io)

\* the save loop over chunks
SaveChunks(self, disk, file, chunks, output_dir, io) ==
    SaveAll(disk, file, chunks,
            [i \in 1..Len(chunks) |->
                InDir(output_dir, get_output_path(self, file.path, "", i))],
            io)

\* the chunks made, less the strict drop, cut to the count, and saved
SplitChunks(self, disk, file, made, chunk_duration_ms, sections, strict, output_dir, io) ==
    IF SliceError(made) # "" THEN Raise(SliceError(made), io)
    ELSE SaveChunks(self, disk, file,
                    CountLimit(StrictDrop(file.audio, made, chunk_duration_ms, strict),
                               sections),
                    output_dir, io)

MaxSplit(self, disk, file, chunk_duration_ms, sections, strict, output_dir, io) ==
    SplitChunks(self, disk, file, make_chunks(file.audio, chunk_duration_ms),
                chunk_duration_ms, sections, strict, output_dir, io)

\* chunk_duration_ms is a number of ms, <<n, d>>; disk is the file system the
\* call runs on
split_by_time(self, disk, file, chunk_duration_ms, sections, strict, output_dir) ==
    LET v == validate_file(file)
        l == load_audio(file)
        io == v.io \o l.io
    IN  IF v.error # "" THEN Raise(v.error, v.io)
        ELSE IF l.error # "" THEN Raise(l.error, io)
        ELSE IF chunk_duration_ms[1] <= 0 THEN Raise("ChunkNotPositive", io)
        ELSE IF sections = SecInt(1)
             THEN SingleSplit(self, disk, file, chunk_duration_ms, output_dir, io)
             ELSE MaxSplit(self, disk, file, chunk_duration_ms, sections, strict,
                           output_dir, io)

-----------------------------------------------------------------------------
(* AudioProcessor.split_by_size *)

\* int(self.bitrate[:-1])
Kbps(bitrate) == SubSeq(bitrate, 1, Len(bitrate) - 1)[1]

\* the compressed rate left in bits per millisecond
BytesPerMs_Bits(self, audio) ==
    IF self.output_format = "wav"
    THEN <<audio.sample_width * audio.channels * audio.frame_rate, 1000>>
    ELSE <<Kbps(self.bitrate) * 1000, 1000>>

\* bytes per millisecond, as the fraction <<numerator, denominator>>
BytesPerMs(self, audio) ==
    IF self.output_format = "wav"
    THEN <<audio.sample_width * audio.channels * audio.frame_rate, 1000>>
    ELSE <<Kbps(self.bitrate) * 1000, 8 * 1000>>

\* the quotient rounded up instead of truncated
SizeToDurationMs_Ceil(max_size_bytes, bytes_per_ms) ==
    (max_size_bytes \div bytes_per_ms[1]) * bytes_per_ms[2]
        + ((max_size_bytes % bytes_per_ms[1]) * bytes_per_ms[2] + bytes_per_ms[1] - 1)
            \div bytes_per_ms[1]

\* int(max_size_bytes / bytes_per_ms), max_size_bytes > 0: the quotient
\* (max * den) / num truncated, taken by parts (max = q * num + r) so that no
\* product leaves the 32-bit integers of the checker
SizeToDurationMs(max_size_bytes, bytes_per_ms) ==
    (max_size_bytes \div bytes_per_ms[1]) * bytes_per_ms[2]
        + IntOf((max_size_bytes % bytes_per_ms[1]) * bytes_per_ms[2], bytes_per_ms[1])

\* what split_by_time returned or raised, after the file checks and the
\* decode that split_by_size did itself; value: the chunk duration computed
AfterOwnIo(r, io, chunk_duration_ms) ==
    [r EXCEPT !.io = io \o r.io, !.value = [chunk_duration_ms |-> chunk_duration_ms]]

\* return self.split_by_time(file_path, chunk_duration_ms, sections, strict,
\* output_dir)
SplitAt(self, disk, file, chunk_duration_ms, sections, strict, output_dir, io) ==
    AfterOwnIo(split_by_time(self, disk, file, Ms(chunk_duration_ms), sections,
                             strict, output_dir),
               io, chunk_duration_ms)

split_by_size(self, disk, file, max_size_bytes, sections, strict, output_dir) ==
    LET v == validate_file(file)
        l == load_audio(file)
        io == v.io \o l.io
    IN  IF v.error # "" THEN Raise(v.error, v.io)
        ELSE IF l.error # "" THEN Raise(l.error, io)
        ELSE IF max_size_bytes <= 0 THEN Raise("MaxSizeNotPositive", io)
        ELSE SplitAt(self, disk, file,
                     SizeToDurationMs(max_size_bytes, BytesPerMs(self, file.audio)),
                     sections, strict, output_dir, io)

-----------------------------------------------------------------------------
(* AudioProcessor.trim *)

\* trim_range: None or the tuple (start_sec, end_sec) of two numbers
NoRange == [t |-> "none", start |-> None, end |-> None]
Range(a, b) == [t |-> "pair", start |-> a, end |-> b]

\* trim_start == 0 and trim_end == -1 become None
NormStart(trim_start) ==
    IF trim_start.t = "num" /\ trim_start.v = 0 THEN None ELSE trim_start
\* the -1 default of trim_end taken as a supplied value
NormEnd_NoSentinel(trim_end) == trim_end

NormEnd(trim_end) == IF trim_end = Num(-SecDenom) THEN None ELSE trim_end

\* sum(x is not None for x in [trim_start, trim_end, trim_range])
Supplied(ts, te, trim_range) ==
    (IF ts # None THEN 1 ELSE 0) + (IF te # None THEN 1 ELSE 0)
        + (IF trim_range # NoRange THEN 1 ELSE 0)

\* the start compared with > : a start at the very end is let through
StartExceeds_Strict(start_ms, total_duration_ms) == start_ms > total_duration_ms

\* start_ms >= total_duration_ms
StartExceeds(start_ms, total_duration_ms) == start_ms >= total_duration_ms

\* the end compared with >= : an end at the very end is refused
EndExceeds_Inclusive(end_ms, total_duration_ms) == end_ms >= total_duration_ms

\* end_ms > total_duration_ms
EndExceeds(end_ms, total_duration_ms) == end_ms > total_duration_ms

\* int(x * 1000) of a numeric argument x: of ticks / SecDenom exactly, of
\* the float ms / 1000 one less than ms when the product falls below ms
MsOf(x) ==
    IF x.u = "ms"
    THEN IF x.v > 0 /\ FloatDir(x.v, 1000, 1000) < 0 THEN x.v - 1 ELSE x.v
    ELSE ToMs(x.v)

\* audio[start_ms:] unless start_ms >= total_duration_ms
FromStartMs(audio, start_ms) ==
    IF StartExceeds(start_ms, audio.len) THEN NoSegment("TrimStartExceeds")
    ELSE SliceFrom(audio, Ms(start_ms))

TrimFromStart(audio, ts) ==
    IF ts.v <= 0 THEN NoSegment("TrimStartNotPositive")
    ELSE FromStartMs(audio, MsOf(ts))

\* audio[:end_ms] unless end_ms > total_duration_ms
ToEndMs(audio, end_ms) ==
    IF EndExceeds(end_ms, audio.len) THEN NoSegment("TrimEndExceeds")
    ELSE SliceTo(audio, Ms(end_ms))

TrimToEnd(audio, te) ==
    IF te.v <= 0 THEN NoSegment("TrimEndNotPositive")
    ELSE ToEndMs(audio, MsOf(te))

\* audio[start_ms:-end_ms] unless end_ms > total_duration_ms
RangeMs(audio, start_ms, end_ms) ==
    IF EndExceeds(end_ms, audio.len) THEN NoSegment("TrimRangeExceeds")
    ELSE GetItem(audio, Ms(start_ms), Ms(-end_ms))

TrimRange(audio, trim_range) ==
    IF trim_range.start.v < 0 THEN NoSegment("InvalidRange")
    ELSE RangeMs(audio, MsOf(trim_range.start), MsOf(trim_range.end))

\* trim after trim_start == 0 and trim_end == -1 have become None
TrimSupplied(self, disk, file, ts, te, trim_range, output_suffix) ==
    LET v == validate_file(file)
        l == load_audio(file)
        io == v.io \o l.io
    IN  IF Supplied(ts, te, trim_range) # 1 THEN Raise("AmbiguousTrim", <<>>)
        ELSE IF v.error # "" THEN Raise(v.error, v.io)
        ELSE IF l.error # "" THEN Raise(l.error, io)
        ELSE SaveAll(disk, file,
                     <<IF ts # None THEN TrimFromStart(file.audio, ts)
                       ELSE IF te # None THEN TrimToEnd(file.audio, te)
                       ELSE TrimRange(file.audio, trim_range)>>,
                     <<get_output_path(self, file.path, output_suffix, 0)>>, io)

trim(self, disk, file, trim_start, trim_end, trim_range, output_suffix) ==
    TrimSupplied(self, disk, file, NormStart(trim_start), NormEnd(trim_end),
                 trim_range, output_suffix)

-----------------------------------------------------------------------------
(* validators.validate_duration and validators.validate_time_range *)

\* (time, unit) for a number or a string with a "sec" / "min" postfix; a
\* string with neither raises; anything else falls through and returns None
validate_duration(time) ==
    IF time.t = "num" THEN [error |-> "", time |-> time.v, unit |-> "sec"]
    ELSE IF time.t = "str"
         THEN IF time.u = "sec" THEN [error |-> "", time |-> time.v, unit |-> "sec"]
              ELSE IF time.u = "min" THEN [error |-> "", time |-> time.v, unit |-> "min"]
              ELSE [error |-> "InvalidDuration", time |-> 0, unit |-> ""]
    ELSE [error |-> "TypeError", time |-> 0, unit |-> ""]

\* any((start > 0, end != -1))
NumericIsRange(start, end) == start.v > 0 \/ end.v # -SecDenom

\* _time if unit == "sec" else _time * 60
ToSeconds(d) == IF d.unit = "sec" THEN d.time ELSE d.time * 60

validate_time_range(start, end) ==
    IF start.t = "num" /\ end.t = "num"
    THEN Value([start |-> start.v, end |-> end.v, is_range |-> NumericIsRange(start, end)])
    ELSE LET d1 == validate_duration(start)
             d2 == validate_duration(end)
         IN  IF d1.error # "" THEN Raise(d1.error, <<>>)
             ELSE IF d2.error # "" THEN Raise(d2.error, <<>>)
             ELSE Value([start |-> ToSeconds(d1), end |-> ToSeconds(d2),
                         is_range |-> (start.t = "str" /\ end.t = "str")])

-----------------------------------------------------------------------------
(* main.main *)

NoRun == [pc |-> "idle"]

NoPool == [pc |-> "idle"]

\* main() is about to run: no processor has been constructed
NoProcessor == [output_format |-> "", bitrate |-> <<>>]

\* args.file when --file is not given
NoFileArg == [path |-> InputPath, state |-> "absent", audio |-> NoAudio]

\* validate_bitrate of a string "<digits><tail>": kept when the tail is "k",
\* else the digits with "k" appended
validate_bitrate(bitrate) ==
    IF bitrate[2] = "k" THEN bitrate ELSE <<bitrate[1], "k">>

\* validate_size of a number (Num(n), the number n itself: int(size), "kb"),
\* of a string "<int><postfix>", or of anything else, for which it falls
\* through and returns None, which the caller cannot unpack
validate_size(size) ==
    IF size.t = "num" THEN [error |-> "", size |-> size.v, unit |-> "kb"]
    ELSE IF size.t = "str"
         THEN IF size.u = "kb" THEN [error |-> "", size |-> size.v, unit |-> "kb"]
              ELSE IF size.u = "mb" THEN [error |-> "", size |-> size.v, unit |-> "mb"]
              ELSE [error |-> "InvalidSize", size |-> 0, unit |-> ""]
    ELSE [error |-> "TypeError", size |-> 0, unit |-> ""]

\* size * 1024 if units == "kb" else size * 1024 * 1024
SizeBytes(vs) == IF vs.unit = "kb" THEN vs.size * 1024 ELSE vs.size * 1024 * 1024

\* int(duration) * 1000 if units == "sec" else duration * 1000 * 60: whole
\* seconds, but minutes as the float they come to, in ms
DurationMs(vd) ==
    IF vd.unit = "sec" THEN Ms(IntOf(vd.time, SecDenom) * 1000)
    ELSE LET g == GCD(60000, SecDenom)
         IN  <<vd.time * (60000 \div g), SecDenom \div g>>

\* "max" if args.count == -1 else args.count
SectionsOf(count) == IF count = -1 THEN SecMax ELSE SecInt(count)

\* args.output if args.output else Path(args.file).parent / "slicer"
OutputOf(args) == IF args.output # "" THEN args.output ELSE "in/slicer"

\* get_audio_info(file)["duration_seconds"], or the error it raises
get_audio_info(file) ==
    LET v == validate_file(file)
        l == load_audio(file)
    IN  IF v.error # "" THEN [error |-> v.error, duration_seconds |-> Seconds(0)]
        ELSE IF l.error # "" THEN [error |-> l.error, duration_seconds |-> Seconds(0)]
        ELSE [error |-> "", duration_seconds |-> Seconds(file.audio.len)]

\* Python truthiness of --trim_start / --trim_end
Truthy(x) == IF x.t = "num" THEN x.v # 0 ELSE x.t = "str"

\* what a run of main() leaves: the lines printed, the exit status of the
\* process, the exception that left main(), the processor operations called,
\* and the last of them with its result
Ran(stdout, exit, exception, ops, c, r) ==
    [stdout |-> stdout, exit |-> exit, exception |-> exception, ops |-> ops,
     call |-> c, result |-> r]

\* try: ... print(done) / except Exception: print(failed), around the
\* operation c that returned or raised r
Reported(ops, c, r, done, failed) ==
    IF r.status = "error" THEN Ran(<<failed>>, 0, "", ops, c, r)
    ELSE Ran(<<done>>, 0, "", ops, c, r)

\* "if args.size:" branch of --split
SplitSizeBranch(self, args) ==
    LET vs == validate_size(args.size)
    IN  IF vs.error # ""
        THEN Ran(<<"Size split error">>, 0, "", <<>>, NoCall, NoResult)
        ELSE Reported(<<"split_by_size">>,
                      [op |-> "split_by_size", disk |-> args.disk, file |-> args.file,
                       max_size_bytes |-> SizeBytes(vs),
                       sections |-> SectionsOf(args.count),
                       strict |-> args.strict, output_dir |-> OutputOf(args)],
                      split_by_size(self, args.disk, args.file, SizeBytes(vs),
                                    SectionsOf(args.count), args.strict,
                                    OutputOf(args)),
                      "Created size-based chunks", "Size split error")

\* "elif args.duration:" branch of --split
SplitDurationBranch(self, args) ==
    LET vd == validate_duration(args.duration)
    IN  IF vd.error # ""
        THEN Ran(<<"Time split error">>, 0, "", <<>>, NoCall, NoResult)
        ELSE Reported(<<"split_by_time">>,
                      [op |-> "split_by_time", disk |-> args.disk, file |-> args.file,
                       chunk_duration_ms |-> DurationMs(vd),
                       sections |-> SectionsOf(args.count),
                       strict |-> args.strict, output_dir |-> OutputOf(args)],
                      split_by_time(self, args.disk, args.file, DurationMs(vd),
                                    SectionsOf(args.count), args.strict,
                                    OutputOf(args)),
                      "Created time-based chunks", "Time split error")

\* "if args.split:" branch
SplitBranch(self, args) ==
    IF args.size # None THEN SplitSizeBranch(self, args)
    ELSE IF args.duration # None THEN SplitDurationBranch(self, args)
    ELSE Ran(<<"You must specify one of (duration, size) arguments">>, 0, "", <<>>,
             NoCall, NoResult)

\* processor.trim(args.file, trim_range=(start, end)) if is_range else
\* processor.trim(args.file, trim_start=start, trim_end=end)
TrimCall(self, args, before, ts, te, range) ==
    Reported(before \o <<"trim">>,
             [op |-> "trim", disk |-> args.disk, file |-> args.file,
              trim_start |-> ts, trim_end |-> te, trim_range |-> range],
             trim(self, args.disk, args.file, ts, te, range, "-trimmed"),
             "Trimmed", "Trim error")

\* the trim of start .. end as validate_time_range returned them, end
\* reassigned when the whole file was asked for
TrimOf(self, args, before, start, end, is_range) ==
    TrimCall(self, args, before,
             IF is_range THEN None ELSE start,
             IF is_range THEN None ELSE end,
             IF is_range THEN Range(start, end) ELSE NoRange)

\* "elif args.trim:" branch
TrimBranch(self, args) ==
    LET vr == validate_time_range(args.trim_start, args.trim_end)
        whole == vr.value.start = 0 /\ vr.value.end = -SecDenom
        info == get_audio_info(args.file)
    IN  IF ~Truthy(args.trim_start) /\ ~Truthy(args.trim_end)
        THEN Ran(<<>>, 1, "SlicerArgumentException", <<>>, NoCall, NoResult)
        ELSE IF vr.status = "error"
        THEN Ran(<<"Trim error">>, 0, "", <<>>, NoCall, NoResult)
        ELSE IF whole /\ info.error # ""
        THEN Ran(<<"Trim error">>, 0, "", <<"get_audio_info">>, NoCall, NoResult)
        ELSE TrimOf(self, args, IF whole THEN <<"get_audio_info">> ELSE <<>>,
                    Num(vr.value.start),
                    IF whole THEN info.duration_seconds ELSE Num(vr.value.end),
                    vr.value.is_range)

\* AudioProcessor(output_format=args.format, bitrate=validate_bitrate(args.bitrate))
ProcessorOf(args) ==
    [output_format |-> args.format, bitrate |-> validate_bitrate(args.bitrate)]

\* main() on the command line args (args.disk: the file system it runs on):
\* sys.exit(0) after the help, sys.exit() after the usage error of a
\* missing --file, else the --split / --trim dispatch and a normal return
main(args) ==
    IF args.help THEN Ran(<<"help", "Example Usage">>, 0, "", <<>>, NoCall, NoResult)
    ELSE IF args.file = NoFileArg
    THEN Ran(<<"usage", "error: argument --file: is required">>, 0, "", <<>>,
             NoCall, NoResult)
    ELSE IF args.split THEN SplitBranch(ProcessorOf(args), args)
    ELSE IF args.trim THEN TrimBranch(ProcessorOf(args), args)
    ELSE Ran(<<"You must use either --trim or --split">>, 0, "", <<>>, NoCall, NoResult)

-----------------------------------------------------------------------------
(* Argument sets *)

\* chunk_duration_ms: int, in ms
ChunkDurations == {Ms(c) : c \in -1..MaxChunkMs}

SectionsArgs == {SecMax} \cup {SecInt(k) : k \in -1..MaxCount}

\* sizes around zero up to the bound, and the 1 MB of "--size 1mb"
\* (size * 1024 * 1024)
MaxSizes == {k * SizeStep : k \in -1..MaxSizeSteps} \cup {1024 * 1024}

\* seconds, in ticks: -1 (the trim_end default), and around zero up to the bound
SecTicks == {-SecDenom} \cup (-1..MaxSecTicks)

SecArgs == {None} \cup {Num(n) : n \in SecTicks}

\* --trim_start / --trim_end as main() hands them over: the numeric defaults
\* or the strings typed, with a "sec" or "min" postfix or none
TimeArgs == {Num(n) : n \in SecTicks}
            \cup {Str(n, u) : n \in SecTicks, u \in {"sec", "min", ""}}

\* longer audio: one split by a fraction of a minute, and one whose length
\* in seconds does not come back from the float
LongMs == {500, 1001}

\* the files main() is run on: the shortest and the longest audio of Files,
\* two longer ones, and the paths that are no decodable file
MainFiles ==
    {f \in Files : f.state # "ok"}
    \cup {[path |-> InputPath, state |-> "ok", audio |-> Audio(0, a)] :
            a \in {x \in AudioAttrs : x.channels = 1 /\ x.frame_rate = 8000}}
    \cup {[path |-> InputPath, state |-> "ok", audio |-> Audio(MaxTotalMs, a)] :
            a \in {x \in AudioAttrs : (x.channels = 1) = (x.frame_rate = 8000)}}
    \cup {[path |-> InputPath, state |-> "ok", audio |-> Audio(l, a)] :
            l \in LongMs,
            a \in {x \in AudioAttrs : x.channels = 1 /\ x.frame_rate = 8000}}

\* --size: absent, "0kb", "1kb", "1mb", or a number with no unit
SizeOptions == {None, Str(0, "kb"), Str(1, "kb"), Str(1, "mb"), Str(1, "")}

\* --duration: absent, fractions of a second and of a minute, "1sec", "1min",
\* or no unit
DurationOptions ==
    {None, Str(1, "sec"), Str(SecDenom, "sec"), Str(1, "min"), Str(SecDenom, "min"),
     Str(1, "")}

\* --bitrate: "192k" (the default) or "192kbps"
BitrateOptions == {<<192, "k">>, <<192, "kbps">>}

\* --size, --duration, --strict and --count: given with --split, else at
\* their defaults
SplitOptions(splitting) ==
    IF splitting
    THEN [size : SizeOptions, duration : DurationOptions, strict : BOOLEAN,
          count : {-1, 2}]
    ELSE {[size |-> None, duration |-> None, strict |-> FALSE, count |-> -1]}

\* --trim_start and --trim_end: given with --trim, else at their defaults
TrimOptions(trimming) ==
    IF trimming
    THEN [trim_start : {Num(0), Str(0, "sec"), Str(1, "sec")},
          trim_end : {Num(-SecDenom), Str(-SecDenom, "sec"), Str(1, "sec"),
                      Str(1, "")}]
    ELSE {[trim_start |-> Num(0), trim_end |-> Num(-SecDenom)]}

\* --output, --format, --bitrate and the disk main() runs on: at their
\* defaults with --help and for the longer files
RunOptions(help, file) ==
    IF help \/ file.audio.len > MaxTotalMs
    THEN {[output |-> "", format |-> "mp3", bitrate |-> <<192, "k">>,
           disk |-> NoLimit]}
    ELSE [output : {"", "out"}, format : {"mp3", "wav"}, bitrate : BitrateOptions,
          disk : {NoLimit, Room(0)}]

\* the command line of main() and the disk it runs on; the longer files are
\* split by duration or trimmed
CommandLine(help, file, splitting, trimming, so, to, ro) ==
    [help |-> help, file |-> file, split |-> splitting, trim |-> trimming,
     size |-> IF file.audio.len > MaxTotalMs THEN None ELSE so.size,
     duration |-> so.duration, strict |-> so.strict,
     count |-> IF file.audio.len > MaxTotalMs THEN -1 ELSE so.count,
     trim_start |-> to.trim_start, trim_end |-> to.trim_end,
     output |-> ro.output, format |-> ro.format, bitrate |-> ro.bitrate,
     disk |-> ro.disk]

RangeArgs ==
    {NoRange} \cup {Range(Num(a), Num(b)) : a \in SecTicks, b \in SecTicks}

\* trim writes one file: a disk with room for one or more is as good as any
TrimDisks == {NoLimit, Room(0)}

-----------------------------------------------------------------------------
(* The state machine *)

Init ==
    /\ processor \in [output_format : SUPPORTED_AUDIO_FORMATS, bitrate : Bitrates]
    /\ call = NoCall
    /\ result = NoResult
    /\ cli = NoRun
    /\ pool = NoPool

SplitByTime ==
    /\ call = NoCall
    /\ \E disk \in Disks, file \in Files, chunk_duration_ms \in ChunkDurations,
          sections \in SectionsArgs, strict \in BOOLEAN, output_dir \in OutputDirs :
          /\ call' = [op |-> "split_by_time", disk |-> disk, file |-> file,
                      chunk_duration_ms |-> chunk_duration_ms, sections |-> sections,
                      strict |-> strict, output_dir |-> output_dir]
          /\ result' = split_by_time(processor, disk, file, chunk_duration_ms,
                                     sections, strict, output_dir)
    /\ UNCHANGED <<processor, cli, pool>>

SplitBySize ==
    /\ call = NoCall
    /\ \E disk \in Disks, file \in Files, max_size_bytes \in MaxSizes,
          sections \in SectionsArgs, strict \in BOOLEAN, output_dir \in OutputDirs :
          /\ call' = [op |-> "split_by_size", disk |-> disk, file |-> file,
                      max_size_bytes |-> max_size_bytes, sections |-> sections,
                      strict |-> strict, output_dir |-> output_dir]
          /\ result' = split_by_size(processor, disk, file, max_size_bytes, sections,
                                     strict, output_dir)
    /\ UNCHANGED <<processor, cli, pool>>

Trim ==
    /\ call = NoCall
    /\ \E disk \in TrimDisks, file \in Files, trim_start \in SecArgs,
          trim_end \in SecArgs, trim_range \in RangeArgs :
          /\ call' = [op |-> "trim", disk |-> disk, file |-> file,
                      trim_start |-> trim_start, trim_end |-> trim_end,
                      trim_range |-> trim_range]
          /\ result' = trim(processor, disk, file, trim_start, trim_end, trim_range,
                            "-trimmed")
    /\ UNCHANGED <<processor, cli, pool>>

ValidateTimeRange ==
    /\ call = NoCall
    /\ \E start \in TimeArgs, end \in TimeArgs :
          /\ call' = [op |-> "validate_time_range", start |-> start, end |-> end]
          /\ result' = validate_time_range(start, end)
    /\ UNCHANGED <<processor, cli, pool>>

\* The caller takes the result; the processor is ready for the next call
Finish ==
    /\ call # NoCall
    /\ call' = NoCall
    /\ result' = NoResult
    /\ UNCHANGED <<processor, cli, pool>>

Next == SplitByTime \/ SplitBySize \/ Trim \/ ValidateTimeRange \/ Finish

Spec == Init /\ [][Next]_vars

\* A process that runs main() once
InitMain ==
    /\ processor = NoProcessor
    /\ call = NoCall
    /\ result = NoResult
    /\ cli = NoRun
    /\ pool = NoPool

\* the process after main(args) has run with outcome m
Exited(args, m) ==
    /\ cli' = [pc |-> "exited", args |-> args, stdout |-> m.stdout,
               exit |-> m.exit, exception |-> m.exception, ops |-> m.ops]
    /\ call' = m.call
    /\ result' = m.result
    /\ processor' = IF args.help \/ args.file = NoFileArg THEN NoProcessor
                    ELSE ProcessorOf(args)

Main ==
    /\ cli = NoRun
    /\ \E help \in BOOLEAN, file \in {NoFileArg} \cup MainFiles,
          splitting \in BOOLEAN, trimming \in BOOLEAN :
        \E so \in SplitOptions(splitting /\ ~help),
           to \in TrimOptions(trimming /\ ~help), ro \in RunOptions(help, file) :
          Exited(CommandLine(help, file, splitting, trimming, so, to, ro),
                 main(CommandLine(help, file, splitting, trimming, so, to, ro)))
    /\ UNCHANGED pool

\* the next run starts from a fresh process
Rerun ==
    /\ cli # NoRun
    /\ cli' = NoRun
    /\ call' = NoCall
    /\ result' = NoResult
    /\ processor' = NoProcessor
    /\ UNCHANGED pool

NextMain == Main \/ Rerun

SpecMain == InitMain /\ [][NextMain]_vars

-----------------------------------------------------------------------------
(* decorators.threaded_for_loop *)

\* the items a wrapper is run over
Items == {"a", "b"}

DataLists == UNION {[1..n -> Items] : n \in 0..MaxItems}

\* max_workers: None or an int
WorkersNone == [t |-> "none", n |-> 0]
WorkersInt(k) == [t |-> "int", n |-> k]

WorkerOptions == {WorkersNone} \cup {WorkersInt(k) : k \in 0..MaxWorkers}

\* os.cpu_count() of the machine
CpuCounts == 1..MaxCpus

\* ThreadPoolExecutor(max_workers=None) sizes the pool
\* min(32, (os.cpu_count() or 1) + 4)
DefaultPoolSize(cpu_count) == Min(32, cpu_count + 4)

PoolSize(max_workers, cpu_count) ==
    IF max_workers = WorkersNone THEN DefaultPoolSize(cpu_count) ELSE max_workers.n

\* ThreadPoolExecutor(max_workers): "max_workers must be greater than 0"
PoolRejected(max_workers) ==
    max_workers # WorkersNone /\ max_workers.n <= 0

\* what func(item) does: it returns, raises an Exception, or raises a
\* BaseException that is not an Exception (SystemExit, KeyboardInterrupt)
Outcomes == {"returns", "raises", "exits"}

\* what func(item) returns when it does not raise
FuncResult(item) == <<"result", item>>

\* try: future.result() / except Exception: whether the loop goes on
Caught(task) == task \in {"returned", "raised"}

\* results.append((item, result)) / results.append((item, None))
ResultEntry(item, task) ==
    IF task = "returned" THEN <<item, FuncResult(item)>> ELSE <<item, <<"None">>>>

N == Len(pool.data_list)

\* the tasks a worker thread is busy with: from taking the work item until
\* its future is completed
Active == {i \in 1..N : pool.task[i] \in {"started", "locked", "ran", "left"}}

Completed == {i \in 1..N : pool.task[i] \in {"returned", "raised", "exited"}}

\* wrapper(): the lock is made, the executor is built and entered
CallWrapper ==
    /\ pool = NoPool
    /\ \E data_list \in DataLists, max_workers \in WorkerOptions,
          thread_safe \in BOOLEAN, cpu_count \in CpuCounts :
          \E outcome \in [1..Len(data_list) -> Outcomes] :
              pool' = [pc |-> IF PoolRejected(max_workers) THEN "raised"
                              ELSE IF Len(data_list) = 0 THEN "collecting"
                              ELSE "submitting",
                       error |-> IF PoolRejected(max_workers) THEN "ValueError"
                                 ELSE "",
                       data_list |-> data_list, outcome |-> outcome,
                       max_workers |-> max_workers, thread_safe |-> thread_safe,
                       cpu_count |-> cpu_count,
                       task |-> [i \in 1..Len(data_list) |-> "new"],
                       calls |-> [i \in 1..Len(data_list) |-> 0],
                       lock |-> 0, collected |-> <<>>, results |-> <<>>]
    /\ UNCHANGED <<processor, call, result, cli>>

\* executor.submit(thread_safe_func, item, ...) for the next item
Submit ==
    /\ pool.pc = "submitting"
    /\ \E i \in 1..N :
          /\ pool.task[i] = "new"
          /\ \A j \in 1..(i - 1) : pool.task[j] # "new"
          /\ pool' = [pool EXCEPT !.task[i] = "queued",
                                  !.pc = IF i = N THEN "collecting" ELSE "submitting"]
    /\ UNCHANGED <<processor, call, result, cli>>

\* a worker thread takes the oldest queued task
Start ==
    /\ pool.pc \in {"submitting", "collecting", "raising"}
    /\ Cardinality(Active) < PoolSize(pool.max_workers, pool.cpu_count)
    /\ \E i \in 1..N :
          /\ pool.task[i] = "queued"
          /\ \A j \in 1..(i - 1) : pool.task[j] # "queued"
          /\ pool' = [pool EXCEPT !.task[i] = "started"]
    /\ UNCHANGED <<processor, call, result, cli>>

\* with lock: (thread_safe only)
Acquire ==
    /\ pool.pc \in {"submitting", "collecting", "raising"}
    /\ pool.thread_safe
    /\ pool.lock = 0
    /\ \E i \in 1..N :
          /\ pool.task[i] = "started"
          /\ pool' = [pool EXCEPT !.task[i] = "locked", !.lock = i]
    /\ UNCHANGED <<processor, call, result, cli>>

\* func(item, ...) runs and returns or raises: inside the with block when
\* thread_safe, else thread_safe_func is left with it
Run ==
    /\ pool.pc \in {"submitting", "collecting", "raising"}
    /\ \E i \in 1..N :
          /\ pool.task[i] = IF pool.thread_safe THEN "locked" ELSE "started"
          /\ pool' = [pool EXCEPT
                          !.task[i] = IF pool.thread_safe THEN "ran" ELSE "left",
                          !.calls[i] = @ + 1]
    /\ UNCHANGED <<processor, call, result, cli>>

\* the with block is left, by return or by the exception: the lock is
\* released, the future is not yet done (thread_safe only)
Release ==
    /\ pool.pc \in {"submitting", "collecting", "raising"}
    /\ \E i \in 1..N :
          /\ pool.task[i] = "ran"
          /\ pool.lock = i
          /\ pool' = [pool EXCEPT !.task[i] = "left", !.lock = 0]
    /\ UNCHANGED <<processor, call, result, cli>>

\* the worker completes the future of the task with what thread_safe_func
\* returned or raised
Complete ==
    /\ pool.pc \in {"submitting", "collecting", "raising"}
    /\ \E i \in 1..N :
          /\ pool.task[i] = "left"
          /\ pool' = [pool EXCEPT
                          !.task[i] = CASE pool.outcome[i] = "returns" -> "returned"
                                        [] pool.outcome[i] = "raises" -> "raised"
                                        [] OTHER -> "exited"]
    /\ UNCHANGED <<processor, call, result, cli>>

\* for future in as_completed(future_to_item): the next completed future
Collect ==
    /\ pool.pc = "collecting"
    /\ \E i \in Completed :
          /\ \A k \in 1..Len(pool.collected) : pool.collected[k] # i
          /\ IF Caught(pool.task[i])
             THEN pool' = [pool EXCEPT
                              !.collected = Append(@, i),
                              !.results = Append(@, ResultEntry(pool.data_list[i],
                                                                pool.task[i]))]
             ELSE pool' = [pool EXCEPT !.pc = "raising", !.error = "SystemExit"]
    /\ UNCHANGED <<processor, call, result, cli>>

\* return results
Return ==
    /\ pool.pc = "collecting"
    /\ Len(pool.collected) = N
    /\ pool' = [pool EXCEPT !.pc = "returned"]
    /\ UNCHANGED <<processor, call, result, cli>>

\* an exception leaves the with block: the executor waits for the tasks still
\* queued or running, then the exception reaches the caller
Propagate ==
    /\ pool.pc = "raising"
    /\ Completed = 1..N
    /\ pool' = [pool EXCEPT !.pc = "raised"]
    /\ UNCHANGED <<processor, call, result, cli>>

InitBulk ==
    /\ processor = NoProcessor
    /\ call = NoCall
    /\ result = NoResult
    /\ cli = NoRun
    /\ pool = NoPool

PoolStep ==
    Submit \/ Start \/ Acquire \/ Run \/ Release \/ Complete \/ Collect \/ Return
        \/ Propagate

NextBulk ==
    CallWrapper \/ Submit \/ Start \/ Acquire \/ Run \/ Release \/ Complete \/ Collect
        \/ Return \/ Propagate

\* the main thread and the worker threads keep being scheduled
SpecBulk == InitBulk /\ [][NextBulk]_vars /\ WF_vars(PoolStep)

-----------------------------------------------------------------------------
(* Vocabulary of the properties *)

Total == call.file.audio.len

\* the frame at which millisecond ms of the source begins
FrameAt(ms) == FrameCount(Ms(ms), call.file.audio.frame_rate)

\* the frames of the milliseconds [s, e) of the source
Interval(s, e) == FrameAt(s)..(FrameAt(e) - 1)

\* the frames of the source held by a written file
Kept(out) == out.start..(out.end - 1)

\* every file the call set out to write was written
Saved == result.error # "SaveFailed"

\* the file system of the call refuses a directory or a file
EnvRefuses ==
    call.disk.limited \/ (call.op # "trim" /\ call.output_dir = InputPath.name)

\* the chunk duration of the call, a whole number of ms
ChunkMs == call.chunk_duration_ms[1]

\* a split_by_time call in max mode (sections == "max") on a decodable file
\* with a positive chunk duration
MaxModeCall ==
    /\ call.op = "split_by_time"
    /\ call.file.state = "ok"
    /\ call.sections = SecMax
    /\ ChunkMs > 0

-----------------------------------------------------------------------------
(* Properties *)

\* C1: in max mode with strict = false, for every total duration >= 0 and
\* chunk duration > 0, window i is [(i-1)*chunk, min(i*chunk, total)), the
\* windows are ascending and contiguous with no gap or overlap, and their
\* union is exactly [0, total); a file is left unwritten only when the file
\* system refuses it.
C1_MaxModePartition ==
    (MaxModeCall /\ ~call.strict) =>
        LET w == result.outputs
            c == ChunkMs
        IN  /\ Saved \/ EnvRefuses
            /\ Saved =>
                /\ result.status = "ok"
                /\ \A i \in 1..Len(w) :
                       /\ w[i].start = FrameAt((i - 1) * c)
                       /\ w[i].end = FrameAt(Min(i * c, Total))
                       /\ w[i].silence = 0
                       /\ w[i].start < w[i].end
                /\ \A i \in 1..(Len(w) - 1) : w[i].end = w[i + 1].start
                /\ UNION {Kept(w[i]) : i \in 1..Len(w)} = Interval(0, Total)

\* a max-mode, non-strict split that wrote three or more windows, the last
\* one truncated
C1_Witness ==
    /\ MaxModeCall /\ ~call.strict
    /\ Saved
    /\ Len(result.outputs) >= 3
    /\ Total % ChunkMs # 0
    /\ result.outputs[Len(result.outputs)].end = FrameAt(Total)

\* C2: in max mode the strict = true window list is the strict = false list
\* with its final window removed exactly when that window is shorter than the
\* chunk duration; no other window is removed or shortened.
C2_StrictDropsOnlyShortLast ==
    (MaxModeCall /\ call.strict) =>
        LET loose == split_by_time(processor, NoLimit, call.file,
                                   call.chunk_duration_ms, call.sections, FALSE,
                                   "out").outputs
            n == Len(loose)
            w == result.outputs
            kept == IF n > 0 /\ Total < n * ChunkMs THEN n - 1 ELSE n
        IN  /\ Saved \/ EnvRefuses
            /\ Saved =>
                /\ result.status = "ok"
                /\ Len(w) = kept
                /\ \A i \in 1..kept :
                       /\ Kept(w[i]) = Kept(loose[i])
                       /\ w[i].silence = 0

\* a strict split whose short final window was removed, leaving two or more
C2_Witness ==
    /\ MaxModeCall /\ call.strict
    /\ Saved
    /\ Total % ChunkMs # 0
    /\ Len(result.outputs) >= 2
    /\ result.outputs[Len(result.outputs)].end < FrameAt(Total)

\* C4: single-split mode (sections == 1) on a decodable file: with
\* 0 < chunk < total exactly two files are written, [0, chunk) and
\* [chunk, total), their lengths summing to total, unless the file system
\* refuses one; with chunk >= total the call fails with the exceeds-duration
\* error and writes nothing.
C4_SingleSplit ==
    (/\ call.op = "split_by_time"
     /\ call.file.state = "ok"
     /\ call.sections = SecInt(1)
     /\ ChunkMs > 0) =>
        LET w == result.outputs
            c == ChunkMs
        IN  IF c < Total
            THEN /\ Saved \/ EnvRefuses
                 /\ Saved =>
                     /\ result.status = "ok"
                     /\ Len(w) = 2
                     /\ Kept(w[1]) = Interval(0, c)
                     /\ Kept(w[2]) = Interval(c, Total)
                     /\ w[1].silence = 0 /\ w[2].silence = 0
                     /\ SegLen(w[1], call.file.audio) + SegLen(w[2], call.file.audio)
                            = Total
            ELSE /\ result.status = "error"
                 /\ result.error = "ExceedsDuration"
                 /\ w = <<>>

\* a single split that wrote its two files
C4_Witness ==
    /\ call.op = "split_by_time"
    /\ call.sections = SecInt(1)
    /\ result.status = "ok"
    /\ Len(result.outputs) = 2
    /\ SegLen(result.outputs[2], call.file.audio) > 1

\* floor(sec * 1000) for sec = ticks / SecDenom
FloorMs(ticks) == (ticks * 1000) \div SecDenom

\* which of trim's three arguments a call supplies: trim_start == 0 (or None)
\* and trim_end == -1 (or None) count as not supplied
StartSupplied == call.trim_start # None /\ call.trim_start.v # 0
EndSupplied == call.trim_end # None /\ call.trim_end.v # -SecDenom
RangeSupplied == call.trim_range # NoRange

NumSupplied ==
    (IF StartSupplied THEN 1 ELSE 0) + (IF EndSupplied THEN 1 ELSE 0)
        + (IF RangeSupplied THEN 1 ELSE 0)

TrimOk == call.op = "trim" /\ call.file.state = "ok"

\* the trim call wrote one file keeping exactly the frames fs of the source
TrimKeeps(fs) ==
    /\ result.status = "ok"
    /\ Len(result.outputs) = 1
    /\ Kept(result.outputs[1]) = fs
    /\ result.outputs[1].silence = 0

TrimFails == result.status = "error" /\ result.outputs = <<>>

\* C3: trim with Range(start_sec, end_sec), start_sec >= 0, end_sec >= 0 and
\* end_ms <= total (end_sec = 0 included), keeps exactly
\* [start_ms, total - end_ms): the end bound is measured back from the end of
\* the file.
C3_RangeKeepsFromEnd ==
    (/\ TrimOk
     /\ RangeSupplied /\ ~StartSupplied /\ ~EndSupplied
     /\ call.trim_range.start.v >= 0
     /\ call.trim_range.end.v >= 0
     /\ FloorMs(call.trim_range.end.v) <= Total
     /\ Saved) =>
        TrimKeeps(Interval(FloorMs(call.trim_range.start.v),
                           Total - FloorMs(call.trim_range.end.v)))

\* C5: trim fails with the ambiguous-trim-spec error exactly when the number
\* of supplied arguments among trim_start, trim_end, trim_range is not one
\* (trim_start == 0 or None and trim_end == -1 or None are not supplied).
C5_AmbiguousIffNotExactlyOne ==
    call.op = "trim" =>
        ((result.status = "error" /\ result.error = "AmbiguousTrim")
            <=> NumSupplied # 1)

\* a trim call given trim_range together with a non-zero trim_start, refused
C5_Witness ==
    /\ call.op = "trim"
    /\ RangeSupplied /\ StartSupplied /\ ~EndSupplied
    /\ call.file.state = "ok"
    /\ result.error = "AmbiguousTrim"

\* C6: trim FromStart(start_sec) on a decodable file: with start_sec > 0 and
\* start_ms = floor(start_sec * 1000) < total it keeps exactly
\* [start_ms, total), unless the file system refuses the file; with
\* start_sec <= 0 or start_ms >= total it fails and writes nothing.
C6_FromStart ==
    (/\ TrimOk
     /\ call.trim_start # None /\ ~EndSupplied /\ ~RangeSupplied) =>
        IF call.trim_start.v > 0 /\ FloorMs(call.trim_start.v) < Total
        THEN /\ Saved \/ EnvRefuses
             /\ Saved => TrimKeeps(Interval(FloorMs(call.trim_start.v), Total))
        ELSE TrimFails

\* a FromStart trim that kept a proper, non-empty tail of the file
C6_Witness ==
    /\ TrimOk
    /\ StartSupplied /\ ~EndSupplied /\ ~RangeSupplied
    /\ result.status = "ok"
    /\ result.outputs[1].start > 0
    /\ result.outputs[1].end = FrameAt(Total)
    /\ result.outputs[1].start < result.outputs[1].end

\* C7: trim ToEnd(end_sec) on a decodable file: with end_sec > 0 and
\* end_ms = floor(end_sec * 1000) <= total it keeps exactly [0, end_ms), an
\* absolute offset from the start, unless the file system refuses the file;
\* with end_sec <= 0 or end_ms > total it fails and writes nothing.
C7_ToEnd ==
    (/\ TrimOk
     /\ call.trim_end # None /\ ~StartSupplied /\ ~RangeSupplied) =>
        IF call.trim_end.v > 0 /\ FloorMs(call.trim_end.v) <= Total
        THEN /\ Saved \/ EnvRefuses
             /\ Saved => TrimKeeps(Interval(0, FloorMs(call.trim_end.v)))
        ELSE TrimFails

\* a ToEnd trim that kept a proper, non-empty head of the file
C7_Witness ==
    /\ TrimOk
    /\ EndSupplied /\ ~StartSupplied /\ ~RangeSupplied
    /\ result.status = "ok"
    /\ result.outputs[1].start = 0
    /\ result.outputs[1].end > 0
    /\ result.outputs[1].end < FrameAt(Total)

\* C8: trim with only an end bound E discards the last E seconds: the
\* output keeps [0, total - E*1000).
C8_TrimEndDiscardsTail ==
    (/\ TrimOk
     /\ EndSupplied /\ ~StartSupplied /\ ~RangeSupplied
     /\ call.trim_end.v > 0
     /\ FloorMs(call.trim_end.v) <= Total
     /\ Saved) =>
        TrimKeeps(Interval(0, Total - FloorMs(call.trim_end.v)))

\* C9: validate_time_range answers is_range = true exactly when both bounds
\* were supplied: for bare numbers only when start != 0 and end != -1; for
\* other inputs only when both are strings, each bound scaled to seconds
\* (times 60 when its unit is minutes).
C9_IsRangeIffBothSupplied ==
    (call.op = "validate_time_range" /\ result.status = "ok") =>
        IF call.start.t = "num" /\ call.end.t = "num"
        THEN result.value.is_range
                <=> (call.start.v # 0 /\ call.end.v # -SecDenom)
        ELSE /\ result.value.is_range
                    <=> (call.start.t = "str" /\ call.end.t = "str")
             /\ result.value.start
                    = IF call.start.u = "min" THEN call.start.v * 60 ELSE call.start.v
             /\ result.value.end
                    = IF call.end.u = "min" THEN call.end.v * 60 ELSE call.end.v

\* C10: split_by_size is split_by_time at chunk_ms = floor(max_bytes /
\* bytes_per_ms), bytes_per_ms = sample_width*channels*frame_rate/1000 for
\* wav and bitrate_kbps*1000/8000 for every other format: the same files
\* with the same windows, or the same error; with max_bytes <= 0 it fails
\* with the invalid-size error.
C10_SizeIsProjectionOntoTime ==
    call.op = "split_by_size" =>
        LET a == call.file.audio
            chunk_ms ==
                IF call.file.state # "ok" THEN 1
                ELSE IF processor.output_format = "wav"
                THEN (call.max_size_bytes * 1000)
                        \div (a.sample_width * a.channels * a.frame_rate)
                ELSE (call.max_size_bytes * 8) \div processor.bitrate[1]
            r == split_by_time(processor, call.disk, call.file, Ms(chunk_ms),
                               call.sections, call.strict, call.output_dir)
        IN  IF call.max_size_bytes > 0
            THEN /\ result.status = r.status
                 /\ result.error = r.error
                 /\ result.outputs = r.outputs
            ELSE call.file.state = "ok" =>
                    /\ result.status = "error"
                    /\ result.error = "MaxSizeNotPositive"
                    /\ result.outputs = <<>>

\* a by-size split to mp3 that wrote two or more files, the last one short
C10_Witness ==
    /\ call.op = "split_by_size"
    /\ processor.output_format # "wav"
    /\ result.status = "ok"
    /\ Len(result.outputs) >= 2
    /\ result.outputs[Len(result.outputs)].end - result.outputs[Len(result.outputs)].start
          < result.outputs[1].end - result.outputs[1].start

\* a split_by_size call on a decodable file with max_size_bytes > 0
SizeCall ==
    /\ call.op = "split_by_size"
    /\ call.file.state = "ok"
    /\ call.max_size_bytes > 0

\* C11: for every max_bytes > 0 the converted chunk_ms satisfies
\* split_by_time's precondition chunk_duration_ms > 0, so split_by_size never
\* fails on the chunk-duration positivity check.
C11_ConvertedChunkIsPositive ==
    SizeCall =>
        /\ result.value.chunk_duration_ms > 0
        /\ result.error # "ChunkNotPositive"

\* the 1 MB wav example: sample_width 2, channels 2, frame_rate 44100
OneMbWavCall ==
    /\ SizeCall
    /\ call.max_size_bytes = 1048576
    /\ processor.output_format = "wav"
    /\ call.file.audio.sample_width = 2
    /\ call.file.audio.channels = 2
    /\ call.file.audio.frame_rate = 44100

\* bytes_per_ms of the call is 176.4
BytesPerMsIs176_4 ==
    LET b == BytesPerMs(processor, call.file.audio)
    IN  b[1] * 10 = 1764 * b[2]

\* C12 as stated: for the 1 MB wav example bytes_per_ms is 176.4 and the
\* chunk duration floor(max_bytes / bytes_per_ms) is 5941 ms.
C12_OneMbWavIs5941 ==
    OneMbWavCall =>
        /\ BytesPerMsIs176_4
        /\ result.value.chunk_duration_ms = 5941

\* C12 amended: for the 1 MB wav example bytes_per_ms is 176.4 and the chunk
\* duration floor(max_bytes / bytes_per_ms) is 5944 ms.
C12_OneMbWavIs5944 ==
    OneMbWavCall =>
        /\ BytesPerMsIs176_4
        /\ result.value.chunk_duration_ms = 5944

\* the 1 MB wav example, split into the single window the file fills
C12_Witness ==
    /\ OneMbWavCall
    /\ call.sections = SecMax
    /\ result.status = "ok"
    /\ Len(result.outputs) = 1

\* C13: in max/count mode with sections a positive integer k # 1,
\* split_by_time writes exactly the first min(k, n) windows, in order, of the
\* n windows left after the strict drop, unless the file system refuses one.
C13_CountKeepsFirstK ==
    (/\ call.op = "split_by_time"
     /\ call.file.state = "ok"
     /\ ChunkMs > 0
     /\ call.sections.t = "int"
     /\ call.sections.n > 1) =>
        LET all == split_by_time(processor, NoLimit, call.file,
                                 call.chunk_duration_ms, SecMax, call.strict,
                                 "out").outputs
            k == call.sections.n
            n == Len(all)
        IN  /\ Saved \/ EnvRefuses
            /\ Saved =>
                /\ result.status = "ok"
                /\ Len(result.outputs) = Min(k, n)
                /\ \A i \in 1..Min(k, n) :
                       /\ Kept(result.outputs[i]) = Kept(all[i])
                       /\ result.outputs[i].silence = all[i].silence

\* a strict split with count 2 of a file that has more than two full windows
\* and a short last one
C13_Witness ==
    /\ call.op = "split_by_time"
    /\ call.file.state = "ok"
    /\ call.sections = SecInt(2)
    /\ call.strict
    /\ ChunkMs > 0
    /\ Total > 3 * ChunkMs
    /\ Total % ChunkMs # 0
    /\ Saved
    /\ Len(result.outputs) = 2

\* the argument of the call is invalid whatever the file holds
InvalidArgument ==
    \/ call.op = "split_by_time" /\ ChunkMs <= 0
    \/ call.op = "split_by_size" /\ call.max_size_bytes <= 0
    \/ call.op = "trim" /\ NumSupplied # 1

InvalidArgumentError ==
    result.error \in {"ChunkNotPositive", "MaxSizeNotPositive", "AmbiguousTrim"}

\* C14: in split_by_time, split_by_size and trim an invalid argument
\* (non-positive chunk duration, non-positive max size, ambiguous trim spec)
\* is reported before any file I/O: no existence check or decode precedes
\* the error, whether or not the file exists or decodes.
C14_ValidationBeforeFileIO ==
    (call.op \in {"split_by_time", "split_by_size", "trim"} /\ InvalidArgument) =>
        /\ result.status = "error"
        /\ InvalidArgumentError
        /\ result.io = <<>>

\* main() has run on a command line that names a file and asks no help
MainRan == cli.pc = "exited" /\ ~cli.args.help /\ cli.args.file # NoFileArg

\* main() printed one of its argument errors
PrintedArgumentError ==
    \E i \in 1..Len(cli.stdout) :
        cli.stdout[i] \in {"You must use either --trim or --split",
                           "You must specify one of (duration, size) arguments",
                           "error: argument --file: is required"}

\* C15: main() performs an operation only when exactly one of --split /
\* --trim is given, and under --split only when exactly one of --size /
\* --duration is given; both --split and --trim, or both --size and
\* --duration, are rejected with an error and nothing is split or trimmed.
C15_ExactlyOneMode ==
    MainRan =>
        LET a == cli.args
            oneMode == a.split # a.trim
            oneSplitKind == (a.size # None) # (a.duration # None)
        IN  /\ cli.ops # <<>> => (oneMode /\ (a.split => oneSplitKind))
            /\ (a.split /\ a.trim) => (cli.ops = <<>> /\ PrintedArgumentError)
            /\ (a.split /\ a.size # None /\ a.duration # None) =>
                   (cli.ops = <<>> /\ PrintedArgumentError)

\* C16: main() run without --file, or with --file but neither --split nor
\* --trim, prints a usage error, terminates with a non-zero exit status, and
\* lets no exception out.
C16_UsageErrorExitsNonZero ==
    (/\ cli.pc = "exited"
     /\ ~cli.args.help
     /\ cli.args.file = NoFileArg \/ (~cli.args.split /\ ~cli.args.trim)) =>
        /\ PrintedArgumentError
        /\ cli.exit # 0
        /\ cli.exception = ""

\* the wrapper has been called
PoolCalled == pool.pc # "idle"

\* the result list holds, for the items collected so far, one entry each:
\* (item, result) for a success and (item, None) for a failure
OneEntryPerCollected ==
    /\ Len(pool.results) = Len(pool.collected)
    /\ \A k, l \in 1..Len(pool.collected) :
           k # l => pool.collected[k] # pool.collected[l]
    /\ \A k \in 1..Len(pool.collected) :
           LET i == pool.collected[k]
           IN  /\ i \in 1..N
               /\ pool.results[k] =
                      IF pool.outcome[i] = "returns"
                      THEN <<pool.data_list[i], <<"result", pool.data_list[i]>>>>
                      ELSE <<pool.data_list[i], <<"None">>>>

BulkSafe ==
    PoolCalled =>
        /\ pool.pc \notin {"raising", "raised"}
        /\ \A i \in 1..N : pool.calls[i] <= 1
        /\ OneEntryPerCollected
        /\ pool.pc = "returned" =>
               /\ \A i \in 1..N : pool.calls[i] = 1
               /\ Len(pool.results) = N

\* C17: for every data_list, max_workers and set of failing items, under
\* every interleaving of the workers the wrapped function is invoked exactly
\* once per item, a failure never prevents or aborts another item, no
\* exception leaves the wrapper, and the wrapper eventually returns a list
\* with exactly one entry per item: (item, result) or (item, None).
C17_BulkIsolatesFailures ==
    /\ []BulkSafe
    /\ PoolCalled ~> (pool.pc = "returned")

====
